---------------------------- MODULE Spec2Model ----------------------------
(***************************************************************************)
(* A model of the specification-identity layer (prusti-specs,              *)
(* specifications/common.rs) and of the permission-predicate layer         *)
(* (prusti-viper, encoder/vir/ast/predicate.rs).                           *)
(*                                                                         *)
(* Text is modelled as a sequence of one-character strings, so that        *)
(* formatting and parsing are computed character by character.             *)
(***************************************************************************)
EXTENDS Integers, Sequences, FiniteSets, TLC

VARIABLES
    issued,     \* SpecificationIds returned by generate(), in call order
    drawn,      \* the random 16-byte draw behind each element of issued
    sid,        \* the SpecificationId being displayed / parsed
    origin,     \* which constructor produced sid: "generate" or "dummy"
    text,       \* the String handed to SpecificationId::try_from
    parsed,     \* the Result of SpecificationId::try_from(text)
    form,       \* how text was derived from sid's display string
    classified, \* the tokens handed to SpecType::try_from, each with its result
    item,       \* the syntax item handed to the NameGenerator
    name,       \* the Result the NameGenerator returned for item
    args,       \* the Predicate constructor called last, with its arguments
    pred,       \* the Predicate it returned
    shown,      \* the text of pred, once displayed
    bodyOut,    \* the value of pred's body(), once computed
    isAbs,      \* the value of pred's is_abstract(), once asked
    list,       \* the List: its head link
    old,        \* the List as it was before the last call
    call,       \* the last call on the List, with its argument
    ret         \* what the last call returned

idVars    == <<issued, drawn>>
parseVars == <<sid, origin, text, parsed, form>>
classVars == <<classified>>
nameVars  == <<item, name>>
predVars  == <<args, pred, shown, bodyOut, isAbs>>
listVars  == <<list, old, call, ret>>

-----------------------------------------------------------------------------
(* Bounds of the model.                                                    *)

\* Number of sample byte values the random source may produce per position.
NumSamples == 3
\* Number of calls to generate() made on one generator.
MaxCalls == 2
\* Number of tokens classified in one run.
MaxTokens == 2
\* Nesting depth of slice types ([[T]] has depth 2).
MaxSliceDepth == 2
\* Number of fields of a composite type.
MaxFields == 2
\* Number of variants of a multi-variant type.
MaxVariants == 2
\* Number of nodes of a List.
MaxLen == 3

-----------------------------------------------------------------------------
(* Characters and bytes.                                                   *)

Bytes == 0..255

HexLower == <<"0","1","2","3","4","5","6","7","8","9","a","b","c","d","e","f">>
HexUpper == <<"0","1","2","3","4","5","6","7","8","9","A","B","C","D","E","F">>

\* The value of a hexadecimal digit, or -1 for any other character.
HexValue(c) ==
    IF \E i \in 1..16 : HexLower[i] = c
    THEN (CHOOSE i \in 1..16 : HexLower[i] = c) - 1
    ELSE IF \E i \in 1..16 : HexUpper[i] = c
         THEN (CHOOSE i \in 1..16 : HexUpper[i] = c) - 1
         ELSE -1

IsHex(c) == HexValue(c) >= 0

\* to_ascii_uppercase on a text.
Upper(s) ==
    [i \in 1..Len(s) |->
        IF \E k \in 1..16 : HexLower[k] = s[i]
        THEN HexUpper[CHOOSE k \in 1..16 : HexLower[k] = s[i]]
        ELSE s[i]]

-----------------------------------------------------------------------------
(* uuid::Uuid: 16 bytes, indexed 1..16 here (0..15 in the crate).          *)

UuidLen == 16
SimpleLength == 32
HyphenatedLength == 36
UrnLength == 45
UrnPrefix == <<"u","r","n",":","u","u","i","d",":">>

\* Uuid::nil()
UuidNil == [i \in 1..UuidLen |-> 0]

\* The byte values the random source is sampled at.  171 (0xab) and 75 (0x4b)
\* agree on their low nibble and differ on their high one.
SampleBytes == <<0, 171, 75, 255, 60, 134>>
Samples == { SampleBytes[k] : k \in 1..NumSamples }

\* The outcomes of one call of the random source: 16 random bytes.  Byte 7
\* (index 6 in the crate) and byte 9 (index 8) are the ones new_v4 overwrites
\* in part, so they vary on their own.
RandomDraws ==
    { [i \in 1..UuidLen |-> IF i = 7 THEN b7 ELSE IF i = 9 THEN b9 ELSE fill] :
        fill \in Samples, b7 \in Samples, b9 \in Samples }

\* Uuid::new_v4() on the random bytes r: version 4 in the high nibble of byte
\* 7, the RFC 4122 variant in the two high bits of byte 9.
NewV4(r) ==
    [i \in 1..UuidLen |->
        IF i = 7 THEN (r[i] % 16) + 64
        ELSE IF i = 9 THEN (r[i] % 64) + 128
        ELSE r[i]]

\* uuid.to_simple().encode_lower(..): 32 lowercase hexadecimal characters.
EncodeLower(u) ==
    [i \in 1..SimpleLength |->
        LET b == u[(i + 1) \div 2]
        IN  IF i % 2 = 1 THEN HexLower[(b \div 16) + 1] ELSE HexLower[(b % 16) + 1]]


\* Uuid::nil() wrapped: SpecificationId::dummy().
Dummy == UuidNil

\* SpecificationIdGenerator::generate(), on the random source's outcome r.
GenerateNil(r) == UuidNil
Generate(r) == NewV4(r)

\* impl Display for SpecificationId: the simple lower-case encoding.
DisplayId(id) == EncodeLower(id)

\* The accumulated group lengths of the hyphenated form 8-4-4-4-12.
AccGroupLens == <<8, 12, 16, 20, 32>>

Ok(u) == [ok |-> TRUE, uuid |-> u]
Err(e) == [ok |-> FALSE, err |-> e]

\* The character loop of Uuid::parse_str.  digit counts hexadecimal digits,
\* group counts hyphens, acc is the upper half of the byte being read and
\* buffer the bytes read so far.
RECURSIVE ParseLoop(_, _, _, _, _, _)
ParseLoop(input, i, digit, group, acc, buffer) ==
    IF i > Len(input)
    THEN IF AccGroupLens[5] # digit THEN Err("InvalidGroupLength") ELSE Ok(buffer)
    ELSE
      LET chr == input[i] IN
      IF digit >= SimpleLength /\ group # 4
      THEN IF group = 0 THEN Err("InvalidLength") ELSE Err("InvalidGroupCount")
      ELSE IF digit % 2 = 0
      THEN IF IsHex(chr)
           THEN IF digit >= SimpleLength THEN Err("Panic")
                ELSE ParseLoop(input, i + 1, digit + 1, group, HexValue(chr), buffer)
           ELSE IF chr = "-"
           THEN IF group >= 5 THEN Err("Panic")
                ELSE IF AccGroupLens[group + 1] # digit
                THEN Err("InvalidGroupLength")
                ELSE ParseLoop(input, i + 1, digit, group + 1, acc, buffer)
           ELSE Err("InvalidCharacter")
      ELSE IF IsHex(chr)
           THEN LET byte == acc * 16 + HexValue(chr) IN
                ParseLoop(input, i + 1, digit + 1, group, byte,
                          [buffer EXCEPT ![(digit \div 2) + 1] = byte])
           ELSE IF chr = "-"
           THEN Err("InvalidGroupLength")
           ELSE Err("InvalidCharacter")

StartsWith(s, p) == Len(s) >= Len(p) /\ SubSeq(s, 1, Len(p)) = p

\* Uuid::parse_str: the length screen, then the character loop.
ParseStr(input) ==
    IF Len(input) = UrnLength /\ StartsWith(input, UrnPrefix)
    THEN ParseLoop(SubSeq(input, Len(UrnPrefix) + 1, Len(input)), 1, 0, 0, 0, UuidNil)
    ELSE IF Len(input) \notin {HyphenatedLength, SimpleLength}
    THEN Err("InvalidLength")
    ELSE ParseLoop(input, 1, 0, 0, 0, UuidNil)

\* impl TryFrom<String> for SpecificationId
TryFromOrDummy(value) ==
    LET r == ParseStr(value) IN IF r.ok THEN r ELSE Ok(Dummy)
TryFromString(value) == ParseStr(value)

-----------------------------------------------------------------------------
(* Calls of generate() on one generator.                                   *)

NotRun == Err("NotRun")

ParseIdle ==
    /\ sid = Dummy
    /\ origin = "none"
    /\ text = <<>>
    /\ parsed = NotRun
    /\ form = "none"

GenIdle ==
    /\ issued = <<>>
    /\ drawn = <<>>

\* generator.generate(): the generator has no field to read or to update; the
\* history variables record what the call returned and the draw behind it.
GenerateCall ==
    /\ Len(issued) < MaxCalls
    /\ \E r \in RandomDraws :
          /\ issued' = Append(issued, Generate(r))
          /\ drawn' = Append(drawn, r)

-----------------------------------------------------------------------------
(* Display and parsing of one SpecificationId.                             *)

\* The hyphenated form 8-4-4-4-12 of a simple 32-digit text.
Hyphenate(s) ==
    SubSeq(s, 1, 8) \o <<"-">> \o SubSeq(s, 9, 12) \o <<"-">> \o SubSeq(s, 13, 16)
        \o <<"-">> \o SubSeq(s, 17, 20) \o <<"-">> \o SubSeq(s, 21, 32)

\* The hyphens moved one place to the left in the first group: 7-5-4-4-12.
HyphenateShifted(s) ==
    SubSeq(s, 1, 7) \o <<"-">> \o SubSeq(s, 8, 12) \o <<"-">> \o SubSeq(s, 13, 16)
        \o <<"-">> \o SubSeq(s, 17, 20) \o <<"-">> \o SubSeq(s, 21, 32)

ReplaceAt(s, p, c) == [s EXCEPT ![p] = c]

\* Characters a caller may put in place of a digit, and where.
OddChars == {"g", "G", "-", " ", "z", ":"}
OddPlaces == {1, 2, 9, 32}
CutLengths == {0, 1, 31}

\* The texts a caller may hand to try_from, derived from a display string d:
\* each is a pair <<form, text>>.
Forms(d) ==
    {<<"upper", Upper(d)>>,
     <<"hyphenated", Hyphenate(d)>>,
     <<"hyphenated_upper", Upper(Hyphenate(d))>>,
     <<"urn", UrnPrefix \o Hyphenate(d)>>,
     <<"urn_simple", UrnPrefix \o d>>,
     <<"shifted", HyphenateShifted(d)>>,
     <<"braced", <<"{">> \o Hyphenate(d) \o <<"}">> >>,
     <<"padded", d \o <<"0", "0", "0", "0">> >>,
     <<"doubled", d \o d>>}
    \cup { <<"cut", SubSeq(d, 1, n)>> : n \in CutLengths }
    \cup { <<"longer", d \o <<c>> >> : c \in OddChars \cup {"0"} }
    \cup { <<"replaced", ReplaceAt(d, p, c)>> : p \in OddPlaces, c \in OddChars }
    \cup { <<"hyphenated_replaced", ReplaceAt(Hyphenate(d), p, c)>> :
              p \in OddPlaces, c \in OddChars }

\* An identifier is produced by generate() or by dummy().
MakeGenerated ==
    /\ \E r \in RandomDraws : sid' = Generate(r)
    /\ origin' = "generate"
    /\ text' = <<>>
    /\ parsed' = NotRun
    /\ form' = "none"

MakeDummy ==
    /\ sid' = Dummy
    /\ origin' = "dummy"
    /\ text' = <<>>
    /\ parsed' = NotRun
    /\ form' = "none"

\* SpecificationId::try_from(sid.to_string())
ParseDisplay ==
    /\ origin # "none"
    /\ text' = DisplayId(sid)
    /\ form' = "display"
    /\ parsed' = TryFromString(text')
    /\ UNCHANGED <<sid, origin>>

\* SpecificationId::try_from(t) for another text t.
ParseOther ==
    /\ origin # "none"
    /\ \E f \in Forms(DisplayId(sid)) :
          /\ form' = f[1]
          /\ text' = f[2]
          /\ parsed' = TryFromString(f[2])
    /\ UNCHANGED <<sid, origin>>

-----------------------------------------------------------------------------
(* SpecType::try_from(&str).                                               *)

OkKind(k) == [ok |-> TRUE, kind |-> k]

\* impl TryFrom<&str> for SpecType: a match on the whole token.
SpecTypeNoPredicate(typ) ==
    CASE typ = "requires"  -> OkKind("Precondition")
      [] typ = "ensures"   -> OkKind("Postcondition")
      [] typ = "invariant" -> OkKind("Invariant")
      [] OTHER             -> Err("UnknownSpecificationType")
SpecTypeTryFrom(typ) ==
    CASE typ = "requires"  -> OkKind("Precondition")
      [] typ = "ensures"   -> OkKind("Postcondition")
      [] typ = "invariant" -> OkKind("Invariant")
      [] typ = "predicate" -> OkKind("Predicate")
      [] OTHER             -> Err("UnknownSpecificationType")

\* The tokens a front-end may hand over: the four keywords and near misses.
Tokens ==
    {"requires", "ensures", "invariant", "predicate",
     "Requires", "require", "requires ", "invariants", "predicates",
     "pledge", "after_expiry", ""}

ClassIdle == classified = <<>>

\* SpecType::try_from(token)
Classify ==
    /\ Len(classified) < MaxTokens
    /\ \E t \in Tokens :
          classified' = Append(classified, [token |-> t, result |-> SpecTypeTryFrom(t)])

-----------------------------------------------------------------------------
(* NameGenerator.                                                          *)

\* syn::Type, as far as generate_name_for_type looks at it: a path (its
\* segments, each an identifier and its generic arguments), a slice (its
\* element type), or any other shape.
Segment(id, generics) == [ident |-> id, args |-> generics]
PathType(segs)    == [kind |-> "Path", segments |-> segs]
SliceType(elem)   == [kind |-> "Slice", elem |-> elem]
TupleType         == [kind |-> "Tuple"]

NoArgs == <<>>
TypeI32 == PathType(<<Segment(<<"i","3","2">>, NoArgs)>>)
TypeStdOption ==
    PathType(<<Segment(<<"s","t","d">>, NoArgs),
               Segment(<<"o","p","t","i","o","n">>, NoArgs),
               Segment(<<"O","p","t","i","o","n">>, <<"<","i","3","2",">">>)>>)
TypeMyT ==
    PathType(<<Segment(<<"m","_","1">>, NoArgs), Segment(<<"T">>, <<"<","U",">">>)>>)

BaseTypes == {TypeI32, TypeStdOption, TypeMyT, TupleType}

RECURSIVE TypesUpTo(_)
TypesUpTo(d) ==
    IF d = 0 THEN BaseTypes
    ELSE TypesUpTo(d - 1) \cup { SliceType(t) : t \in TypesUpTo(d - 1) }

Types == TypesUpTo(MaxSliceDepth)

Idents == { <<"F","o","o">>, <<"m","y","_","t","r","a","i","t">>, <<"T">> }

OkStr(s) == [ok |-> TRUE, str |-> s]

\* segments.iter().map(|seg| seg.ident.to_string()).collect().join("")
RECURSIVE JoinIdents(_)
JoinIdents(segs) ==
    IF segs = <<>> THEN <<>> ELSE Head(segs).ident \o JoinIdents(Tail(segs))

StrSlice == <<"S","l","i","c","e">>
StrPrustiStruct == <<"P","r","u","s","t","i","S","t","r","u","c","t">>
StrPrustiTrait == <<"P","r","u","s","t","i","T","r","a","i","t">>

\* NameGenerator::generate_name_for_type
RECURSIVE GenerateNameForType(_)
GenerateNameForType(ty) ==
    CASE ty.kind = "Path"  -> OkStr(JoinIdents(ty.segments))
      [] ty.kind = "Slice" ->
            LET inner == GenerateNameForType(ty.elem) IN
            IF inner.ok THEN OkStr(StrSlice \o inner.str) ELSE inner
      [] OTHER -> Err("could not generate name for type")

\* NameGenerator::generate_struct_name, on the random source's outcome r.
GenerateStructNameNoSeparator(ty, r) ==
    LET name_ty == GenerateNameForType(ty) IN
    IF ~name_ty.ok THEN name_ty
    ELSE OkStr(StrPrustiStruct \o name_ty.str \o EncodeLower(NewV4(r)))
GenerateStructName(ty, r) ==
    LET name_ty == GenerateNameForType(ty) IN
    IF ~name_ty.ok THEN name_ty
    ELSE OkStr(StrPrustiStruct \o name_ty.str \o <<"_">> \o EncodeLower(NewV4(r)))

\* NameGenerator::generate_struct_name_for_trait
GenerateStructNameForTrait(ident, r) ==
    StrPrustiTrait \o ident \o <<"_">> \o EncodeLower(NewV4(r))

\* NameGenerator::generate_mod_name
GenerateModName(ident, r) == ident \o <<"_">> \o EncodeLower(NewV4(r))

NameIdle ==
    /\ item = [what |-> "none"]
    /\ name = Err("NotRun")

StructName ==
    \E ty \in Types, r \in RandomDraws :
        /\ item' = [what |-> "impl", self_ty |-> ty]
        /\ name' = GenerateStructName(ty, r)

TraitName ==
    \E id \in Idents, r \in RandomDraws :
        /\ item' = [what |-> "trait", ident |-> id]
        /\ name' = OkStr(GenerateStructNameForTrait(id, r))

ModName ==
    \E id \in Idents, r \in RandomDraws :
        /\ item' = [what |-> "mod", ident |-> id]
        /\ name' = OkStr(GenerateModName(id, r))

-----------------------------------------------------------------------------
(* The expression algebra the predicates are built from (vir::ast).  An    *)
(* expression is a record with a tag; names are texts.                     *)

\* vir::Type: a reference to a type with a predicate of its own, or a
\* primitive.
TypedRef(n) == [kind |-> "TypedRef", pred |-> n]
TypeInt     == [kind |-> "Int"]
TypeBool    == [kind |-> "Bool"]

\* Type::name()
TypeName(typ) ==
    CASE typ.kind = "TypedRef" -> typ.pred
      [] typ.kind = "Int"      -> <<"i","n","t">>
      [] OTHER                 -> <<"b","o","o","l">>

LocalVar(n, typ) == [name |-> n, typ |-> typ]
Field(n, typ)    == [name |-> n, typ |-> typ]

None    == [some |-> FALSE]
Some(x) == [some |-> TRUE, val |-> x]

\* Field::typed_ref_name(): the predicate name of a reference-typed field.
TypedRefName(field) ==
    IF field.typ.kind = "TypedRef" THEN Some(field.typ.pred) ELSE None

PermWrite == "Write"

ExprLocal(v)          == [tag |-> "Local", var |-> v]
ExprField(base, f)    == [tag |-> "Field", base |-> base, field |-> f]
ExprConst(n)          == [tag |-> "Const", value |-> n]
BinOp(op, l, r)       == [tag |-> "BinOp", op |-> op, left |-> l, right |-> r]
AccPermission(place, perm) ==
    [tag |-> "FieldAccessPredicate", place |-> place, perm |-> perm]
PredicateAccessPredicate(n, arg, perm) ==
    [tag |-> "PredicateAccessPredicate", pred |-> n, arg |-> arg, perm |-> perm]
LeCmp(l, r)   == BinOp("LeCmp", l, r)
EqCmp(l, r)   == BinOp("EqCmp", l, r)
And(l, r)     == BinOp("And", l, r)
Implies(l, r) == BinOp("Implies", l, r)

\* ExprIterator::conjoin: the conjunction of the parts, in their order.
Conjoin(parts) == [tag |-> "Conj", parts |-> parts]

\* The decimal digits of a natural number, and the text of an integer.
RECURSIVE ShowNat(_)
ShowNat(n) ==
    IF n < 10 THEN <<HexLower[n + 1]>>
    ELSE ShowNat(n \div 10) \o <<HexLower[(n % 10) + 1]>>

ShowInt(n) == IF n < 0 THEN <<"-">> \o ShowNat(0 - n) ELSE ShowNat(n)

ShowPerm(perm) == IF perm = "Write" THEN <<"w","r","i","t","e">> ELSE <<"r","e","a","d">>

ShowOp(op) ==
    CASE op = "LeCmp"   -> <<"<","=">>
      [] op = "EqCmp"   -> <<"=","=">>
      [] op = "And"     -> <<"&","&">>
      [] OTHER          -> <<"=","=",">">>

\* impl Display for Expr
RECURSIVE ShowExpr(_)
RECURSIVE ShowParts(_)
ShowParts(parts) ==
    IF Len(parts) = 1 THEN <<"(">> \o ShowExpr(parts[1]) \o <<")">>
    ELSE <<"(">> \o ShowExpr(Head(parts)) \o <<")"," ","&","&"," ">> \o ShowParts(Tail(parts))
ShowExpr(e) ==
    CASE e.tag = "Local" -> e.var.name
      [] e.tag = "Field" -> ShowExpr(e.base) \o <<".">> \o e.field.name
      [] e.tag = "Const" -> ShowInt(e.value)
      [] e.tag = "BinOp" ->
            <<"(">> \o ShowExpr(e.left) \o <<")"," ">> \o ShowOp(e.op) \o <<" ","(">>
                \o ShowExpr(e.right) \o <<")">>
      [] e.tag = "FieldAccessPredicate" ->
            <<"a","c","c","(">> \o ShowExpr(e.place) \o <<","," ">> \o ShowPerm(e.perm) \o <<")">>
      [] e.tag = "PredicateAccessPredicate" ->
            <<"a","c","c","(">> \o e.pred \o <<"(">> \o ShowExpr(e.arg) \o <<")",","," ">>
                \o ShowPerm(e.perm) \o <<")">>
      [] OTHER -> IF e.parts = <<>> THEN <<"t","r","u","e">> ELSE ShowParts(e.parts)

\* The value of an integer expression when the discriminant place holds d.
EvalInt(e, disc, d) ==
    IF e = disc THEN d ELSE IF e.tag = "Const" THEN e.value ELSE 0

\* The truth of a condition on the discriminant when the discriminant holds d.
RECURSIVE EvalBool(_, _, _)
EvalBool(e, disc, d) ==
    CASE e.tag = "BinOp" /\ e.op = "LeCmp" ->
            EvalInt(e.left, disc, d) <= EvalInt(e.right, disc, d)
      [] e.tag = "BinOp" /\ e.op = "EqCmp" ->
            EvalInt(e.left, disc, d) = EvalInt(e.right, disc, d)
      [] e.tag = "BinOp" /\ e.op = "And" ->
            EvalBool(e.left, disc, d) /\ EvalBool(e.right, disc, d)
      [] e.tag = "BinOp" /\ e.op = "Implies" ->
            EvalBool(e.left, disc, d) => EvalBool(e.right, disc, d)
      [] e.tag = "Conj" ->
            \A i \in 1..Len(e.parts) : EvalBool(e.parts[i], disc, d)
      [] OTHER -> TRUE

-----------------------------------------------------------------------------
(* Predicate, StructPredicate, EnumPredicate.                              *)

Panic == [variant |-> "Panic"]

PredicateStruct(p) == [variant |-> "Struct", p |-> p]
PredicateEnum(p)   == [variant |-> "Enum", p |-> p]

\* Predicate::construct_this
ConstructThis(typ) == LocalVar(<<"s","e","l","f">>, typ)

\* Predicate::new_abstract
NewAbstract(typ) ==
    PredicateStruct([name |-> TypeName(typ), this |-> ConstructThis(typ), body |-> None])

\* Predicate::is_abstract
IsAbstractAnyStruct(predicate) == predicate.variant = "Struct"
IsAbstract(predicate) == predicate.variant = "Struct" /\ ~predicate.p.body.some

\* Predicate::new_primitive_value
NewPrimitiveValueSwapped(typ, field, bounds) ==
    LET this      == ConstructThis(typ)
        val_field == ExprField(ExprLocal(this), field)
        perm      == AccPermission(val_field, PermWrite)
        body      == IF bounds.some
                     THEN Conjoin(<<perm,
                                    LeCmp(val_field, bounds.val[2]),
                                    LeCmp(bounds.val[1], val_field)>>)
                     ELSE perm
    IN  PredicateStruct([name |-> TypeName(typ), this |-> this, body |-> Some(body)])
NewPrimitiveValue(typ, field, bounds) ==
    LET this      == ConstructThis(typ)
        val_field == ExprField(ExprLocal(this), field)
        perm      == AccPermission(val_field, PermWrite)
        body      == IF bounds.some
                     THEN Conjoin(<<perm,
                                    LeCmp(bounds.val[1], val_field),
                                    LeCmp(val_field, bounds.val[2])>>)
                     ELSE perm
    IN  PredicateStruct([name |-> TypeName(typ), this |-> this, body |-> Some(body)])

\* The two permissions StructPredicate::new makes for one field.
FieldPerms(this, field) ==
    LET predicate_name == TypedRefName(field).val
        location       == ExprField(ExprLocal(this), field)
        field_perm     == AccPermission(location, PermWrite)
        pred_perm      == PredicateAccessPredicate(predicate_name, location, PermWrite)
    IN  <<field_perm, pred_perm>>

\* fields.into_iter().flat_map(..)
RECURSIVE FlatMapFields(_, _)
FlatMapFields(this, fields) ==
    IF fields = <<>> THEN <<>>
    ELSE FieldPerms(this, Head(fields)) \o FlatMapFields(this, Tail(fields))

\* StructPredicate::new; unwrap() panics on a field that is no typed reference.
StructPredicateNewAccOnly(typ, fields) ==
    LET this == ConstructThis(typ) IN
    [name |-> TypeName(typ), this |-> this,
     body |-> Some(Conjoin([i \in 1..Len(fields) |->
                  AccPermission(ExprField(ExprLocal(this), fields[i]), PermWrite)]))]
StructPredicateNew(typ, fields) ==
    LET this == ConstructThis(typ) IN
    IF \E i \in 1..Len(fields) : ~TypedRefName(fields[i]).some
    THEN Panic
    ELSE [name |-> TypeName(typ), this |-> this,
          body |-> Some(Conjoin(FlatMapFields(this, fields)))]

\* Predicate::new_struct
NewStruct(typ, fields) ==
    LET p == StructPredicateNew(typ, fields) IN
    IF p = Panic THEN Panic ELSE PredicateStruct(p)

\* Predicate::new_enum; a variant is <<guard, variant name, payload predicate>>.
NewEnumSwapped(this, discriminant, discriminant_bounds, variants) ==
    PredicateEnum([name |-> TypeName(this.typ), this |-> this,
                   discriminant |-> discriminant_bounds,
                   discriminant_bounds |-> discriminant,
                   variants |-> variants])
NewEnum(this, discriminant, discriminant_bounds, variants) ==
    PredicateEnum([name |-> TypeName(this.typ), this |-> this,
                   discriminant |-> discriminant,
                   discriminant_bounds |-> discriminant_bounds,
                   variants |-> variants])

\* StructPredicate::construct_access
ConstructAccess(p, this, perm_amount) ==
    PredicateAccessPredicate(p.name, this, perm_amount)

\* The implication EnumPredicate::body pushes for one variant.
VariantPart(p, variant) ==
    LET guard      == variant[1]
        field      == Field(<<"e","n","u","m","_">> \o variant[2], variant[3].this.typ)
        location   == ExprField(ExprLocal(p.this), field)
        field_perm == AccPermission(location, PermWrite)
        pred_perm  == ConstructAccess(variant[3], location, PermWrite)
    IN  Implies(guard, And(field_perm, pred_perm))

\* The loop of EnumPredicate::body: every variant's part pushed onto parts.
RECURSIVE PushVariants(_, _, _)
PushVariants(p, parts, rest) ==
    IF rest = <<>> THEN parts
    ELSE PushVariants(p, Append(parts, VariantPart(p, Head(rest))), Tail(rest))

\* EnumPredicate::body
EnumBodyReversed(p) ==
    LET discriminant_perm == AccPermission(p.discriminant, PermWrite)
        rev == [i \in 1..Len(p.variants) |-> p.variants[Len(p.variants) + 1 - i]]
    IN  Conjoin(PushVariants(p, <<discriminant_perm, p.discriminant_bounds>>, rev))
EnumBody(p) ==
    LET discriminant_perm == AccPermission(p.discriminant, PermWrite)
    IN  Conjoin(PushVariants(p, <<discriminant_perm, p.discriminant_bounds>>, p.variants))

\* impl Display for StructPredicate
DisplayStruct(p) ==
    <<"s","t","r","u","c","t","_","p","r","e","d","i","c","a","t","e"," ">> \o p.name \o <<"(">> \o p.this.name \o
    (IF ~p.body.some THEN <<")",";">> \o <<"\n">>
     ELSE <<")","{">> \o <<"\n">> \o <<" "," ">> \o ShowExpr(p.body.val) \o <<"\n">>
              \o <<"}">> \o <<"\n">>)

\* The loop of EnumPredicate's Display: one writeln! per variant.
RECURSIVE WriteVariants(_, _)
WriteVariants(f, rest) ==
    IF rest = <<>> THEN f
    ELSE LET v == Head(rest) IN
         WriteVariants(f \o <<" "," ">> \o v[2] \o <<":"," ">> \o ShowExpr(v[1]) \o <<" ","=","=",">"," ">>
                         \o DisplayStruct(v[3]) \o <<"\n", "\n">>,
                       Tail(rest))

\* impl Display for EnumPredicate
DisplayEnumBody(p) ==
    <<"e","n","u","m","_","p","r","e","d","i","c","a","t","e"," ">> \o p.name \o <<"(">> \o p.this.name \o <<")","{">> \o <<"\n">>
        \o <<" "," ">> \o ShowExpr(EnumBody(p)) \o <<"\n">> \o <<"}">> \o <<"\n">>
DisplayEnum(p) ==
    WriteVariants(<<"e","n","u","m","_","p","r","e","d","i","c","a","t","e"," ">> \o p.name \o <<"(">> \o p.this.name \o <<")","{">>
                      \o <<"\n">> \o <<" "," ","d","i","s","c","r","i","m","i","n","a","n","t","=">> \o ShowExpr(p.discriminant)
                      \o <<"\n">>,
                  p.variants)
        \o <<"}">> \o <<"\n">>

\* impl Display for Predicate
DisplayPredicate(predicate) ==
    IF predicate.variant = "Struct" THEN DisplayStruct(predicate.p)
    ELSE DisplayEnum(predicate.p)

-----------------------------------------------------------------------------
(* The constructors' inputs.                                               *)

TypeT   == TypedRef(<<"T">>)
TypeOpt == TypedRef(<<"m","_","O","p","t">>)
TypeNum == TypedRef(<<"i","3","2">>)

PredTypes == {TypeT, TypeOpt}

\* Fields of reference type, as the encoder declares them for a composite.
RefFields ==
    {Field(<<"f">>, TypeT), Field(<<"n","e","x","t">>, TypeOpt), Field(<<"g">>, TypeNum)}

\* The value fields of the types that model a primitive value.
ValueFields == {Field(<<"v","a","l","_","i","n","t">>, TypeInt), Field(<<"v","a","l","_","b","o","o","l">>, TypeBool)}

ValueBounds ==
    {None, Some(<<ExprConst(0 - 128), ExprConst(127)>>),
     Some(<<ExprConst(0), ExprConst(255)>>)}

RECURSIVE SeqsUpTo(_, _)
SeqsUpTo(S, n) ==
    IF n = 0 THEN {<<>>}
    ELSE LET shorter == SeqsUpTo(S, n - 1) IN
         shorter \cup { Append(q, x) : q \in shorter, x \in S }

FieldLists == SeqsUpTo(RefFields, MaxFields)

\* The discriminant place of an enum's self.
DiscriminantOf(this) ==
    ExprField(ExprLocal(this), Field(<<"d","i","s","c","r","i","m","i","n","a","n","t">>, TypeInt))

\* The values a discriminant is compared with, and the values it may hold.
GuardValues == 0..2
DiscValues  == (0 - 1)..3

\* 0 <= discriminant <= hi
RangeBounds(disc, hi) == And(LeCmp(ExprConst(0), disc), LeCmp(disc, ExprConst(hi)))

\* The payload predicates of an option-like type's variants.
PayloadNone == StructPredicateNew(TypedRef(<<"m","_","O","p","t","_","N","o","n","e">>), <<>>)
PayloadSome == StructPredicateNew(TypedRef(<<"m","_","O","p","t","_","S","o","m","e">>), <<Field(<<"f","_","0">>, TypeNum)>>)

VariantsOf(disc) ==
    { <<EqCmp(disc, ExprConst(k)), nm[1], nm[2]>> :
        k \in GuardValues,
        nm \in {<<<<"N","o","n","e">>, PayloadNone>>, <<<<"S","o","m","e">>, PayloadSome>>} }

-----------------------------------------------------------------------------
(* Construction, display and body of one predicate.                        *)

PredIdle ==
    /\ args = [fn |-> "none"]
    /\ pred = [variant |-> "None"]
    /\ shown = None
    /\ bodyOut = None
    /\ isAbs = None

Fresh == args.fn = "none"

CallNewAbstract ==
    /\ Fresh
    /\ \E typ \in PredTypes \cup {TypeNum} :
          /\ args' = [fn |-> "new_abstract", typ |-> typ]
          /\ pred' = NewAbstract(typ)
    /\ UNCHANGED <<shown, bodyOut, isAbs>>

CallNewPrimitiveValue ==
    /\ Fresh
    /\ \E typ \in {TypeNum, TypeT}, field \in ValueFields, bounds \in ValueBounds :
          /\ args' = [fn |-> "new_primitive_value", typ |-> typ, field |-> field,
                      bounds |-> bounds]
          /\ pred' = NewPrimitiveValue(typ, field, bounds)
    /\ UNCHANGED <<shown, bodyOut, isAbs>>

CallNewStruct ==
    /\ Fresh
    /\ \E typ \in PredTypes, fields \in FieldLists :
          /\ args' = [fn |-> "new_struct", typ |-> typ, fields |-> fields]
          /\ pred' = NewStruct(typ, fields)
    /\ UNCHANGED <<shown, bodyOut, isAbs>>

CallNewEnum ==
    /\ Fresh
    /\ \E typ \in PredTypes, hi \in GuardValues :
          LET this == ConstructThis(typ)
              disc == DiscriminantOf(this)
          IN  \E variants \in SeqsUpTo(VariantsOf(disc), MaxVariants) :
                /\ args' = [fn |-> "new_enum", this |-> this, discriminant |-> disc,
                            discriminant_bounds |-> RangeBounds(disc, hi),
                            variants |-> variants]
                /\ pred' = NewEnum(this, disc, RangeBounds(disc, hi), variants)
    /\ UNCHANGED <<shown, bodyOut, isAbs>>

\* format!("{}", pred)
ShowPredicate ==
    /\ pred.variant \in {"Struct", "Enum"}
    /\ shown' = Some(DisplayPredicate(pred))
    /\ UNCHANGED <<args, pred, bodyOut, isAbs>>

\* pred.body(), for an EnumPredicate
CallBody ==
    /\ pred.variant = "Enum"
    /\ bodyOut' = Some(EnumBody(pred.p))
    /\ UNCHANGED <<args, pred, shown, isAbs>>

\* pred.is_abstract()
CallIsAbstract ==
    /\ pred.variant \in {"Struct", "Enum"}
    /\ isAbs' = Some(IsAbstract(pred))
    /\ UNCHANGED <<args, pred, shown, bodyOut>>

-----------------------------------------------------------------------------
(* The singly-linked List of the user guide (option/initial_code.rs).      *)
(* A Link is None or Some(node); a node owns its elem and its next Link.   *)

Node(elem, next) == [elem |-> elem, next |-> next]

\* The i32 values pushed.
Elems == {5, 10, 0 - 7}

\* List::new
ListNew == [head |-> None]

\* List::link_len
RECURSIVE LinkLen(_)
LinkLen(link) ==
    IF ~link.some THEN 0 ELSE 1 + LinkLen(link.val.next)

\* List::len
ListLen(l) == LinkLen(l.head)

\* List::is_empty
IsEmpty(l) == ~l.head.some

\* lookup_rec; unreachable!() on None is outside its precondition
\* index < link_len(curr).
RECURSIVE LookupRec(_, _)
LookupRec(curr, index) ==
    IF curr.some
    THEN IF index = 0 THEN curr.val.elem ELSE LookupRec(curr.val.next, index - 1)
    ELSE "unreachable"

\* List::lookup
Lookup(l, index) == LookupRec(l.head, index)

\* Option::take: the value taken and what is left in its place.
Take(opt) == [taken |-> opt, left |-> None]

\* List::push: the List afterwards.
PushBack(l, elem) ==
    LET RECURSIVE AtEnd(_)
        AtEnd(link) ==
            IF ~link.some THEN Some(Node(elem, None))
            ELSE Some(Node(link.val.elem, AtEnd(link.val.next)))
    IN  [head |-> AtEnd(l.head)]
Push(l, elem) ==
    LET t        == Take(l.head)
        new_node == Node(elem, t.taken)
    IN  [head |-> Some(new_node)]

\* List::try_pop: the List afterwards and the value returned.
TryPop(l) ==
    LET t == Take(l.head) IN
    IF ~t.taken.some
    THEN [list |-> [head |-> t.left], result |-> None]
    ELSE [list |-> [head |-> t.taken.val.next], result |-> Some(t.taken.val.elem)]

\* List::pop: try_pop().unwrap(), which panics on None.
Pop(l) ==
    LET r == TryPop(l) IN
    IF r.result.some THEN [list |-> r.list, result |-> [panic |-> FALSE, val |-> r.result.val]]
    ELSE [list |-> r.list, result |-> [panic |-> TRUE]]

ListIdle ==
    /\ list = ListNew
    /\ old = ListNew
    /\ call = [fn |-> "new"]
    /\ ret = None

\* list.push(elem)
CallPush ==
    /\ ListLen(list) < MaxLen
    /\ \E e \in Elems :
          /\ call' = [fn |-> "push", elem |-> e]
          /\ list' = Push(list, e)
    /\ old' = list
    /\ ret' = None

\* list.try_pop()
CallTryPop ==
    /\ call' = [fn |-> "try_pop"]
    /\ old' = list
    /\ list' = TryPop(list).list
    /\ ret' = TryPop(list).result

\* list.pop()
CallPop ==
    /\ call' = [fn |-> "pop"]
    /\ old' = list
    /\ list' = Pop(list).list
    /\ ret' = Pop(list).result

-----------------------------------------------------------------------------
(* Specifications.                                                         *)

vars ==
    <<issued, drawn, sid, origin, text, parsed, form, classified, item, name,
      args, pred, shown, bodyOut, isAbs, list, old, call, ret>>

Init == GenIdle /\ ParseIdle /\ ClassIdle /\ NameIdle /\ PredIdle /\ ListIdle

\* Calls of generate().
NextGen == GenerateCall /\ UNCHANGED <<parseVars, classVars, nameVars, predVars, listVars>>
SpecGen == Init /\ [][NextGen]_vars

\* Display and parsing of identifiers.
NextParse ==
    \/ MakeGenerated /\ UNCHANGED <<idVars, classVars, nameVars, predVars, listVars>>
    \/ MakeDummy /\ UNCHANGED <<idVars, classVars, nameVars, predVars, listVars>>
    \/ ParseDisplay /\ UNCHANGED <<idVars, classVars, nameVars, predVars, listVars>>
    \/ ParseOther /\ UNCHANGED <<idVars, classVars, nameVars, predVars, listVars>>
SpecParse == Init /\ [][NextParse]_vars

\* Classification of annotation keywords.
NextClass == Classify /\ UNCHANGED <<idVars, parseVars, nameVars, predVars, listVars>>
SpecClass == Init /\ [][NextClass]_vars

\* Synthesized names.
NextName ==
    \/ StructName /\ UNCHANGED <<idVars, parseVars, classVars, predVars, listVars>>
    \/ TraitName /\ UNCHANGED <<idVars, parseVars, classVars, predVars, listVars>>
    \/ ModName /\ UNCHANGED <<idVars, parseVars, classVars, predVars, listVars>>
SpecName == Init /\ [][NextName]_vars

\* Permission predicates.
NextPred ==
    \/ CallNewAbstract /\ UNCHANGED <<idVars, parseVars, classVars, nameVars, listVars>>
    \/ CallNewPrimitiveValue /\ UNCHANGED <<idVars, parseVars, classVars, nameVars, listVars>>
    \/ CallNewStruct /\ UNCHANGED <<idVars, parseVars, classVars, nameVars, listVars>>
    \/ CallNewEnum /\ UNCHANGED <<idVars, parseVars, classVars, nameVars, listVars>>
    \/ ShowPredicate /\ UNCHANGED <<idVars, parseVars, classVars, nameVars, listVars>>
    \/ CallBody /\ UNCHANGED <<idVars, parseVars, classVars, nameVars, listVars>>
    \/ CallIsAbstract /\ UNCHANGED <<idVars, parseVars, classVars, nameVars, listVars>>
SpecPred == Init /\ [][NextPred]_vars

\* The singly-linked List of the user guide.
NextList ==
    \/ CallPush /\ UNCHANGED <<idVars, parseVars, classVars, nameVars, predVars>>
    \/ CallTryPop /\ UNCHANGED <<idVars, parseVars, classVars, nameVars, predVars>>
    \/ CallPop /\ UNCHANGED <<idVars, parseVars, classVars, nameVars, predVars>>
SpecList == Init /\ [][NextList]_vars

-----------------------------------------------------------------------------
(* Properties of identity generation.                                      *)

\* The bits of a random draw that new_v4 keeps: all of it but the high nibble
\* of byte 7 and the two high bits of byte 9.
KeptBits(r) ==
    [i \in 1..UuidLen |->
        IF i = 7 THEN r[i] % 16 ELSE IF i = 9 THEN r[i] % 64 ELSE r[i]]

\* C1 as stated: any two calls of generate() return different identifiers.
C1_PairwiseDistinct ==
    \A i, j \in 1..Len(issued) : i # j => issued[i] # issued[j]

\* C1 amended: generate() keeps no record of what it issued; each call returns
\* the version-4 identifier of its own random draw, so two calls return the
\* same identifier exactly when their draws agree on the 122 bits new_v4 keeps,
\* and no issued identifier is the nil identifier dummy().
C1_DistinctIffDrawsDiffer ==
    /\ Len(drawn) = Len(issued)
    /\ \A i, j \in 1..Len(issued) :
          (issued[i] = issued[j]) <=> (KeptBits(drawn[i]) = KeptBits(drawn[j]))
    /\ \A i \in 1..Len(issued) :
          /\ issued[i] # Dummy
          /\ issued[i][7] \div 16 = 4
          /\ issued[i][9] \div 64 = 2

\* Two calls whose draws differ return the same identifier.
C1_Witness ==
    /\ Len(issued) >= 2
    /\ drawn[1] # drawn[2]
    /\ issued[1] = issued[2]

-----------------------------------------------------------------------------
(* Properties of display and parsing.                                      *)

FormatErrors ==
    {"InvalidLength", "InvalidCharacter", "InvalidGroupLength", "InvalidGroupCount"}

IsFormatError(r) == ~r.ok /\ r.err \in FormatErrors

Ran == form # "none"

Payload(t) ==
    IF Len(t) = UrnLength /\ StartsWith(t, UrnPrefix)
    THEN SubSeq(t, Len(UrnPrefix) + 1, Len(t))
    ELSE t

-----------------------------------------------------------------------------
(* Properties of keyword classification.                                   *)

Keywords == <<"requires", "ensures", "invariant", "predicate">>
KindOf   == <<"Precondition", "Postcondition", "Invariant", "Predicate">>

-----------------------------------------------------------------------------
(* Properties of synthesized names.                                        *)

\* The stem of a type as the claim describes it: the path segments'
\* identifiers one after the other, "Slice" before the stem of a slice's
\* element type.  Defined for paths and (nested) slices of paths only.
RECURSIVE HasStem(_)
HasStem(ty) ==
    \/ ty.kind = "Path"
    \/ ty.kind = "Slice" /\ HasStem(ty.elem)

RECURSIVE Stem(_)
Stem(ty) ==
    IF ty.kind = "Slice" THEN StrSlice \o Stem(ty.elem)
    ELSE LET segs == ty.segments IN
         IF Len(segs) = 1 THEN segs[1].ident
         ELSE segs[1].ident \o Stem(PathType(Tail(segs)))

IsLowerHex(c) == \E k \in 1..16 : HexLower[k] = c

IsHexSuffix(s) == Len(s) = SimpleLength /\ \A i \in 1..Len(s) : IsLowerHex(s[i])

StructNamed == item.what = "impl" /\ HasStem(item.self_ty)

\* C4 as stated: the struct name is "PrustiStruct", the stem, and directly the
\* 32 hexadecimal characters, with nothing between stem and suffix.
C4_NoSeparator ==
    StructNamed =>
        LET stem == Stem(item.self_ty) IN
        /\ name.ok
        /\ Len(name.str) = Len(StrPrustiStruct) + Len(stem) + SimpleLength
        /\ SubSeq(name.str, 1, Len(StrPrustiStruct)) = StrPrustiStruct
        /\ SubSeq(name.str, Len(StrPrustiStruct) + 1,
                  Len(StrPrustiStruct) + Len(stem)) = stem
        /\ IsHexSuffix(SubSeq(name.str, Len(StrPrustiStruct) + Len(stem) + 1,
                              Len(name.str)))

\* C4 amended: for a path type or a (nested) slice of a path type the struct
\* name is "PrustiStruct", the stem, one underscore, and 32 lower-case
\* hexadecimal characters; the stem of a path type is its segments'
\* identifiers one after the other (generic arguments left out) and the stem
\* of a slice type is "Slice" and then the stem of its element type; for any
\* other type shape the result is an error.
C4_UnderscoreSeparator ==
    /\ StructNamed =>
        LET stem == Stem(item.self_ty)
            at   == Len(StrPrustiStruct) + Len(stem) + 1
        IN
        /\ name.ok
        /\ Len(name.str) = at + SimpleLength
        /\ SubSeq(name.str, 1, Len(StrPrustiStruct)) = StrPrustiStruct
        /\ SubSeq(name.str, Len(StrPrustiStruct) + 1, at - 1) = stem
        /\ name.str[at] = "_"
        /\ IsHexSuffix(SubSeq(name.str, at + 1, Len(name.str)))
    /\ (item.what = "impl" /\ ~HasStem(item.self_ty)) => ~name.ok

\* A name was generated for the slice type [i32].
C4_Witness ==
    /\ item = [what |-> "impl", self_ty |-> SliceType(TypeI32)]
    /\ name.ok
    /\ SubSeq(name.str, 1, 21) =
          StrPrustiStruct \o <<"S","l","i","c","e","i","3","2","_">>

-----------------------------------------------------------------------------
(* Properties of the permission predicates.                                *)

\* Whether text t occurs in text s.
Contains(s, t) ==
    \E i \in 0..(Len(s) - Len(t)) : SubSeq(s, i + 1, i + Len(t)) = t

RECURSIVE ConcatAll(_)
ConcatAll(texts) ==
    IF texts = <<>> THEN <<>> ELSE Head(texts) \o ConcatAll(Tail(texts))

EnumShown == pred.variant = "Enum" /\ shown.some

\* C5 as stated: the text of an EnumPredicate displays the value of body().
C5_DisplaysBody ==
    EnumShown => Contains(shown.val, ShowExpr(EnumBody(pred.p)))

\* C5 amended: the text of an EnumPredicate displays its stored fields: the
\* name, the self variable, "discriminant=" and the discriminant, and for each
\* variant in stored order a line "name: guard ==> payload predicate"; it
\* displays neither the value of body(), nor the access permission to the
\* discriminant, nor discriminant_bounds.
C5_DisplaysStoredFields ==
    EnumShown =>
        LET p == pred.p
            line(v) == <<" "," ">> \o v[2] \o <<":"," ">> \o ShowExpr(v[1]) \o <<" ","=","=",">"," ">>
                          \o DisplayStruct(v[3]) \o <<"\n", "\n">>
        IN
        /\ shown.val =
              <<"e","n","u","m","_","p","r","e","d","i","c","a","t","e"," ">> \o p.name \o <<"(","s","e","l","f",")","{">> \o <<"\n">>
                \o <<" "," ","d","i","s","c","r","i","m","i","n","a","n","t","=">> \o ShowExpr(p.discriminant) \o <<"\n">>
                \o ConcatAll([i \in 1..Len(p.variants) |-> line(p.variants[i])])
                \o <<"}">> \o <<"\n">>
        /\ ~Contains(shown.val, ShowExpr(EnumBody(p)))
        /\ ~Contains(shown.val, ShowExpr(AccPermission(p.discriminant, PermWrite)))
        /\ ~Contains(shown.val, ShowExpr(p.discriminant_bounds))

\* A two-variant EnumPredicate was displayed.
C5_Witness ==
    /\ EnumShown
    /\ Len(pred.p.variants) = 2
    /\ pred.p.variants[1][2] = <<"N","o","n","e">>
    /\ pred.p.variants[2][2] = <<"S","o","m","e">>

\* The discriminant values discriminant_bounds allows.
Legal(disc, bounds) == { d \in DiscValues : EvalBool(bounds, disc, d) }

\* Every legal discriminant value satisfies exactly one guard.
GuardsPartition(disc, bounds, variants) ==
    \A d \in Legal(disc, bounds) :
        Cardinality({ i \in 1..Len(variants) : EvalBool(variants[i][1], disc, d) }) = 1

\* C6 as stated: the guards of every predicate built by new_enum partition
\* the legal discriminant domain.
C6_GuardsPartition ==
    pred.variant = "Enum" =>
        GuardsPartition(pred.p.discriminant, pred.p.discriminant_bounds, pred.p.variants)

\* C6 amended: new_enum stores the discriminant, discriminant_bounds and the
\* variants as they are given, without checking them, so the guards of the
\* predicate it builds partition the legal discriminant domain exactly when
\* the guards the caller passes do.
C6_StoredAsGiven ==
    args.fn = "new_enum" =>
        /\ pred.variant = "Enum"
        /\ pred.p.discriminant = args.discriminant
        /\ pred.p.discriminant_bounds = args.discriminant_bounds
        /\ pred.p.variants = args.variants
        /\ GuardsPartition(pred.p.discriminant, pred.p.discriminant_bounds,
                           pred.p.variants)
             <=> GuardsPartition(args.discriminant, args.discriminant_bounds,
                                 args.variants)

\* An option-like predicate whose two guards partition the domain {0, 1}.
C6_Witness ==
    /\ pred.variant = "Enum"
    /\ Len(pred.p.variants) = 2
    /\ Legal(pred.p.discriminant, pred.p.discriminant_bounds) = {0, 1}
    /\ GuardsPartition(pred.p.discriminant, pred.p.discriminant_bounds, pred.p.variants)

\* C7: body() is the conjunction of acc(discriminant), discriminant_bounds and
\* then one implication per variant, in the order the variants were given to
\* new_enum: guard ==> (acc(self.enum_<name>) && the payload predicate's
\* access on that same field).
C7_EnumBodyShape ==
    (pred.variant = "Enum" /\ bodyOut.some) =>
        LET p  == pred.p
            vs == args.variants
            b  == bodyOut.val
            loc(v) == ExprField(ExprLocal(args.this),
                                Field(<<"e","n","u","m","_">> \o v[2], v[3].this.typ))
        IN
        /\ b.tag = "Conj"
        /\ Len(b.parts) = Len(vs) + 2
        /\ b.parts[1] = AccPermission(args.discriminant, PermWrite)
        /\ b.parts[2] = args.discriminant_bounds
        /\ \A i \in 1..Len(vs) :
              b.parts[i + 2] =
                  Implies(vs[i][1],
                          And(AccPermission(loc(vs[i]), PermWrite),
                              PredicateAccessPredicate(vs[i][3].name, loc(vs[i]),
                                                       PermWrite)))

\* The body of a predicate with two different variants was computed.
C7_Witness ==
    /\ pred.variant = "Enum"
    /\ bodyOut.some
    /\ Len(args.variants) = 2
    /\ args.variants[1] # args.variants[2]
    /\ Len(bodyOut.val.parts) = 4

C9_PrimitiveBody ==
    args.fn = "new_primitive_value" =>
        LET vf == ExprField(ExprLocal(LocalVar(<<"s","e","l","f">>, args.typ)), args.field) IN
        /\ pred.variant = "Struct"
        /\ pred.p.body.some
        /\ ~args.bounds.some => pred.p.body.val = AccPermission(vf, PermWrite)
        /\ args.bounds.some =>
              /\ pred.p.body.val.tag = "Conj"
              /\ pred.p.body.val.parts =
                    <<AccPermission(vf, PermWrite),
                      BinOp("LeCmp", args.bounds.val[1], vf),
                      BinOp("LeCmp", vf, args.bounds.val[2])>>

\* A primitive-value predicate with bounds was built.
C9_Witness ==
    /\ args.fn = "new_primitive_value"
    /\ args.bounds.some
    /\ pred.variant = "Struct"
    /\ Len(pred.p.body.val.parts) = 3

\* C10: is_abstract() is true exactly for the predicates built by
\* new_abstract; it is false for those built by new_primitive_value, by
\* new_struct (an empty field list included) and by new_enum.
C10_AbstractIffNewAbstract ==
    isAbs.some =>
        /\ args.fn \in {"new_abstract", "new_primitive_value", "new_struct", "new_enum"}
        /\ isAbs.val <=> args.fn = "new_abstract"

\* is_abstract() was asked of a predicate built from an empty field list.
C10_Witness ==
    /\ isAbs.some
    /\ args.fn = "new_struct"
    /\ args.fields = <<>>
    /\ ~isAbs.val

-----------------------------------------------------------------------------
(* Properties of the List.                                                 *)

\* C11: the List is a LIFO stack.  push(e) makes len one more, puts e at
\* index 0 and moves every earlier element from index i-1 to i; try_pop on a
\* non-empty List returns Some of the element at index 0, makes len one less
\* and moves every remaining element from index i to i-1; try_pop on an empty
\* List returns None and leaves the List empty.
C11_LifoStack ==
    /\ call.fn = "new" => ListLen(list) = 0
    /\ call.fn = "push" =>
          /\ ListLen(list) = ListLen(old) + 1
          /\ Lookup(list, 0) = call.elem
          /\ \A i \in 1..(ListLen(list) - 1) : Lookup(old, i - 1) = Lookup(list, i)
    /\ (call.fn = "try_pop" /\ ~IsEmpty(old)) =>
          /\ ret = Some(Lookup(old, 0))
          /\ ListLen(list) = ListLen(old) - 1
          /\ \A i \in 1..(ListLen(old) - 1) : Lookup(old, i) = Lookup(list, i - 1)
    /\ (call.fn = "try_pop" /\ IsEmpty(old)) =>
          /\ ret = None
          /\ IsEmpty(list)
          /\ ListLen(list) = 0

\* 5 and then 10 were pushed, and try_pop returned the 10 and left the 5.
C11_Witness ==
    /\ call.fn = "try_pop"
    /\ ListLen(old) = 2
    /\ Lookup(old, 0) = 10
    /\ ret = Some(10)
    /\ ListLen(list) = 1
    /\ Lookup(list, 0) = 5

=============================================================================
